---- MODULE Spec2Model ----
(***************************************************************************)
(* cgos-rs: the I2c bus handle (src/i2c.rs) and the Vga display handle     *)
(* (src/vga.rs), two thin wrappers over the native CGOS library.           *)
(*                                                                         *)
(* The wrapper keeps no state of its own besides the handle objects, so    *)
(* the state is: what the native library holds (unit counts, VGA           *)
(* settings), the handle objects the caller holds, and a record of the     *)
(* last public operation with the native calls it issued and what it       *)
(* returned.  Every public function is one action.                         *)
(*                                                                         *)
(* The two components share nothing: no function of one reads or writes    *)
(* a field, a count or a setting of the other.  A run therefore drives     *)
(* one component, chosen at the start.                                     *)
(***************************************************************************)
EXTENDS Integers, Sequences, FiniteSets, TLC

VARIABLES
    i2cCount,       \* what CgosI2CCount reports for the board
    vgaCount,       \* what CgosVgaCount reports for the board
    libVga,         \* the VGA settings the native library holds
    i2c,            \* the I2c object the caller holds (NoObj before a successful new)
    vga,            \* the Vga object the caller holds
    last,           \* the last public operation: arguments, native calls, outcome
    alive,          \* FALSE once a panic has ended the calling thread
    component,      \* the component the calling program drives: "i2c" or "vga"
    conv            \* the classification-code conversion in progress

vars == <<i2cCount, vgaCount, libVga, i2c, vga, last, alive, component, conv>>

----------------------------------------------------------------------------
(* Bounds of the model *)

\* u32 is modelled U32Bits wide and usize twice as wide (a 64-bit target).
\* The width bears on the indices and slice lengths, which are narrowed from
\* usize to u32; u32 values that are only passed along (classification codes,
\* record fields, return codes) are plain naturals.
U32Bits == 3
\* largest unit count the native library reports
MaxCount == 3
\* buffer lengths are 0..MaxBufLen, and one length above the u32 range
MaxBufLen == 1
\* largest data value (register bytes, contrast, backlight, frequency)
MaxValue == 1
\* bus and register addresses are 0..MaxAddr
MaxAddr == 0
\* native return codes are 0..MaxRet
MaxRet == 2
\* device handles are 1..MaxHandle
MaxHandle == 1
\* raw classification codes are k * 65536 + d, k in 0..MaxKindHi, d in 0..MaxKindLo
MaxKindHi == 6
MaxKindLo == 2

RECURSIVE Pow2(_)
Pow2(n) == IF n = 0 THEN 1 ELSE 2 * Pow2(n - 1)

U32Max == Pow2(U32Bits) - 1
UsizeMax == Pow2(2 * U32Bits) - 1

Handles == 1..MaxHandle
Counts == 0..MaxCount
Values == 0..MaxValue
Retcodes == 0..MaxRet
\* caller-supplied usize indices: the small ones and one above the u32 range
Indices == (0..(MaxCount + 1)) \cup {U32Max + 1}
\* slice lengths (usize): short slices, and slices longer than u32 can count
BufLens == (0..MaxBufLen) \cup {U32Max + 1}
Addrs == 0..MaxAddr
RawCodes == {k * 65536 + d : k \in 0..MaxKindHi, d \in 0..MaxKindLo}

----------------------------------------------------------------------------
(* Integer conversions and arithmetic, at their widths *)

\* `x as u32`: truncation to the low bits
AsU32(x) == x % Pow2(U32Bits)

\* `x as usize` of a u32: zero extension
AsUsize(x) == x % Pow2(2 * U32Bits)

\* `x.try_into()` from usize to u32: fails above u32::MAX
TryIntoU32(x) ==
    IF x <= U32Max THEN [ok |-> TRUE, val |-> x] ELSE [ok |-> FALSE, val |-> 0]

\* usize::saturating_sub
SaturatingSub(a, b) == IF a >= b THEN a - b ELSE 0

\* u32::from(bool)
U32FromBool(b) == IF b THEN 1 ELSE 0

----------------------------------------------------------------------------
(* Outcomes of a public operation *)

Unit == "()"
Ok(v) == [kind |-> "Ok", val |-> v]
Err(e) == [kind |-> "Err", val |-> e]
\* the thread unwinds out of the operation: no value is returned
Panic == [kind |-> "Panic", val |-> "unwrap"]

NoObj == [none |-> TRUE]
NoOp == [op |-> "none", args |-> <<>>, calls |-> <<>>, res |-> Ok(Unit)]

\* one native call: function, the arguments passed, the code returned
NativeCall(fn, a, ret) == [fn |-> fn, a |-> a, ret |-> ret]

\* Pointers handed to the native library.  An integer cast to a pointer is that
\* address; the address of a local is a valid location.
IntAsPtr(v) == <<"addr", v>>
AddrOfLocal == <<"local", 0>>

\* What a local holds after the native call: the library stores `out` through
\* the pointer when it stores at all, and it stores only through a pointer to
\* a location (it checks its out-pointers against null).
AfterNative(ptr, local, wrote, out) ==
    IF wrote /\ ptr = AddrOfLocal THEN out ELSE local

\* what the library does about an out-parameter: stores a value, or stores nothing
NativeStores ==
    {[wrote |-> TRUE, out |-> v] : v \in Values} \cup {[wrote |-> FALSE, out |-> 0]}

----------------------------------------------------------------------------
(* Classification codes (src/i2c.rs, src/vga.rs) *)

\* values of the constants imported from crate::bindings (the vendor header)
CGOS_I2C_TYPE_UNKNOWN == 0
CGOS_I2C_TYPE_PRIMARY == 65536
CGOS_I2C_TYPE_SMB == 131072
CGOS_I2C_TYPE_DDC == 196608

CGOS_VGA_TYPE_UNKNOWN == 0
CGOS_VGA_TYPE_CRT == 65536
CGOS_VGA_TYPE_LCD == 131072
CGOS_VGA_TYPE_LCD_DVO == 196608
CGOS_VGA_TYPE_LCD_LVDS == 262144
CGOS_VGA_TYPE_TV == 327680

\* an enum value: a named variant carries no payload, the reserved one carries x
Variant(tag) == [tag |-> tag, x |-> 0]
Reserved(tag, x) == [tag |-> tag, x |-> x]

\* a conversion with a copy-paste slip in one arm
I2cKindFromU32_DdcAsSmb(value) ==
    CASE value = CGOS_I2C_TYPE_UNKNOWN -> Variant("Unknown")
      [] value = CGOS_I2C_TYPE_PRIMARY -> Variant("Primary")
      [] value = CGOS_I2C_TYPE_SMB -> Variant("Smb")
      [] value = CGOS_I2C_TYPE_DDC -> Variant("Smb")
      [] OTHER -> Reserved("CongatecInternalUse", value)

\* impl From<u32> for I2cKind
I2cKindFromU32(value) ==
    CASE value = CGOS_I2C_TYPE_UNKNOWN -> Variant("Unknown")
      [] value = CGOS_I2C_TYPE_PRIMARY -> Variant("Primary")
      [] value = CGOS_I2C_TYPE_SMB -> Variant("Smb")
      [] value = CGOS_I2C_TYPE_DDC -> Variant("Ddc")
      [] OTHER -> Reserved("CongatecInternalUse", value)

\* impl From<I2cKind> for u32
U32FromI2cKind(val) ==
    CASE val.tag = "Unknown" -> CGOS_I2C_TYPE_UNKNOWN
      [] val.tag = "Primary" -> CGOS_I2C_TYPE_PRIMARY
      [] val.tag = "Smb" -> CGOS_I2C_TYPE_SMB
      [] val.tag = "Ddc" -> CGOS_I2C_TYPE_DDC
      [] val.tag = "CongatecInternalUse" -> val.x

\* impl From<u32> for VgaType
VgaTypeFromU32(value) ==
    CASE value = CGOS_VGA_TYPE_UNKNOWN -> Variant("Unknown")
      [] value = CGOS_VGA_TYPE_CRT -> Variant("Crt")
      [] value = CGOS_VGA_TYPE_LCD -> Variant("Lcd")
      [] value = CGOS_VGA_TYPE_LCD_DVO -> Variant("LcdDv0")
      [] value = CGOS_VGA_TYPE_LCD_LVDS -> Variant("LcdLvds")
      [] value = CGOS_VGA_TYPE_TV -> Variant("Tv")
      [] OTHER -> Reserved("Other", value)

\* impl Into<u32> for VgaType
U32FromVgaType(val) ==
    CASE val.tag = "Unknown" -> CGOS_VGA_TYPE_UNKNOWN
      [] val.tag = "Crt" -> CGOS_VGA_TYPE_CRT
      [] val.tag = "Lcd" -> CGOS_VGA_TYPE_LCD
      [] val.tag = "LcdDv0" -> CGOS_VGA_TYPE_LCD_DVO
      [] val.tag = "LcdLvds" -> CGOS_VGA_TYPE_LCD_LVDS
      [] val.tag = "Tv" -> CGOS_VGA_TYPE_TV
      [] val.tag = "Other" -> val.x

I2cNamedCodes ==
    {CGOS_I2C_TYPE_UNKNOWN, CGOS_I2C_TYPE_PRIMARY, CGOS_I2C_TYPE_SMB, CGOS_I2C_TYPE_DDC}
VgaNamedCodes ==
    {CGOS_VGA_TYPE_UNKNOWN, CGOS_VGA_TYPE_CRT, CGOS_VGA_TYPE_LCD,
     CGOS_VGA_TYPE_LCD_DVO, CGOS_VGA_TYPE_LCD_LVDS, CGOS_VGA_TYPE_TV}

----------------------------------------------------------------------------
(* I2c (src/i2c.rs) *)

\* the `if retcode == 0 { return Err(Error::Bus) } Ok(..)` tail with the test inverted
I2cRet_Inverted(retcode, val) == IF retcode # 0 THEN Err("Bus") ELSE Ok(val)

\* the tail every I2c transfer ends with: `if retcode == 0 { return Err(Error::Bus); } Ok(val)`
I2cRet(retcode, val) == IF retcode = 0 THEN Err("Bus") ELSE Ok(val)

\* I2c::amount: `CgosI2CCount(handle) as usize`
I2cAmount(handle) == AsUsize(i2cCount)

\* an index check that also turns away the last bus
I2cNewResult_OffByOne(handle, index, num_busses) ==
    IF index >= SaturatingSub(num_busses, 1)
    THEN Err("IndexOutOfRange")
    ELSE LET conv32 == TryIntoU32(index)
         IN  IF ~conv32.ok
             THEN Err("IndexOutOfRange")
             ELSE Ok([handle |-> handle, index |-> conv32.val])

\* I2c::new after the count query: the range check, the narrowing, the object
I2cNewResult(handle, index, num_busses) ==
    IF index > SaturatingSub(num_busses, 1)
    THEN Err("IndexOutOfRange")
    ELSE LET conv32 == TryIntoU32(index)
         IN  IF ~conv32.ok
             THEN Err("IndexOutOfRange")
             ELSE Ok([handle |-> handle, index |-> conv32.val])

\* I2c::new
I2cNew(handle, index) ==
    /\ alive /\ component = "i2c"
    /\ LET num_busses == I2cAmount(handle)
           res == I2cNewResult(handle, index, num_busses)
       IN  /\ last' = [op |-> "I2c::new",
                       args |-> [handle |-> handle, index |-> index],
                       calls |-> <<NativeCall("CgosI2CCount", [handle |-> handle], i2cCount)>>,
                       res |-> res]
           /\ i2c' = IF res.kind = "Ok" THEN res.val ELSE i2c
    /\ UNCHANGED <<i2cCount, vgaCount, libVga, vga, alive, component, conv>>

\* I2c::i2c_type
I2cType ==
    /\ alive /\ component = "i2c" /\ i2c # NoObj
    /\ \E raw \in I2cNamedCodes \cup {c + 1 : c \in I2cNamedCodes} :
         last' = [op |-> "I2c::i2c_type", args |-> <<>>,
                  calls |-> <<NativeCall("CgosI2CType",
                                [handle |-> i2c.handle, index |-> i2c.index], raw)>>,
                  res |-> Ok(I2cKindFromU32(raw))]
    /\ UNCHANGED <<i2cCount, vgaCount, libVga, i2c, vga, alive, component, conv>>

\* I2c::is_available
I2cIsAvailable ==
    /\ alive /\ component = "i2c" /\ i2c # NoObj
    /\ \E raw \in Retcodes :
         last' = [op |-> "I2c::is_available", args |-> <<>>,
                  calls |-> <<NativeCall("CgosI2CIsAvailable",
                                [handle |-> i2c.handle, index |-> i2c.index], raw)>>,
                  res |-> Ok(raw = 1)]
    /\ UNCHANGED <<i2cCount, vgaCount, libVga, i2c, vga, alive, component, conv>>

\* I2c::read; the slice is its length, the native call gets pointer and length
I2cRead(bus_address, data_len) ==
    /\ alive /\ component = "i2c" /\ i2c # NoObj
    /\ \E retcode \in Retcodes :
         last' = [op |-> "I2c::read",
                  args |-> [bus_addr |-> bus_address, data_len |-> data_len],
                  calls |-> <<NativeCall("CgosI2CRead",
                                [handle |-> i2c.handle, index |-> i2c.index,
                                 bus_addr |-> bus_address, rd_len |-> AsU32(data_len)],
                                retcode)>>,
                  res |-> I2cRet(retcode, Unit)]
    /\ UNCHANGED <<i2cCount, vgaCount, libVga, i2c, vga, alive, component, conv>>

\* I2c::write
I2cWrite(bus_addr, wr_len) ==
    /\ alive /\ component = "i2c" /\ i2c # NoObj
    /\ \E retcode \in Retcodes :
         last' = [op |-> "I2c::write",
                  args |-> [bus_addr |-> bus_addr, wr_len |-> wr_len],
                  calls |-> <<NativeCall("CgosI2CWrite",
                                [handle |-> i2c.handle, index |-> i2c.index,
                                 bus_addr |-> bus_addr, wr_len |-> AsU32(wr_len)],
                                retcode)>>,
                  res |-> I2cRet(retcode, Unit)]
    /\ UNCHANGED <<i2cCount, vgaCount, libVga, i2c, vga, alive, component, conv>>

\* the out-pointer read_register passes: `&mut data as *mut u8`
ReadRegisterPtr(data) == AddrOfLocal

\* I2c::read_register
I2cReadRegister(bus_addr, reg_addr) ==
    /\ alive /\ component = "i2c" /\ i2c # NoObj
    /\ \E retcode \in Retcodes, stored \in NativeStores :
         LET ptr == ReadRegisterPtr(0)
             wrote == stored.wrote
             out == stored.out
             data == AfterNative(ptr, 0, wrote, out)
         IN  last' = [op |-> "I2c::read_register",
                      args |-> [bus_addr |-> bus_addr, reg_addr |-> reg_addr],
                      calls |-> <<NativeCall("CgosI2CReadRegister",
                                    [handle |-> i2c.handle, index |-> i2c.index,
                                     bus_addr |-> bus_addr, reg_addr |-> reg_addr,
                                     ptr |-> ptr, wrote |-> wrote, out |-> out],
                                    retcode)>>,
                      res |-> I2cRet(retcode, data)]
    /\ UNCHANGED <<i2cCount, vgaCount, libVga, i2c, vga, alive, component, conv>>

\* I2c::write_register
I2cWriteRegister(bus_addr, reg_addr, val) ==
    /\ alive /\ component = "i2c" /\ i2c # NoObj
    /\ \E retcode \in Retcodes :
         last' = [op |-> "I2c::write_register",
                  args |-> [bus_addr |-> bus_addr, reg_addr |-> reg_addr, val |-> val],
                  calls |-> <<NativeCall("CgosI2CWriteRegister",
                                [handle |-> i2c.handle, index |-> i2c.index,
                                 bus_addr |-> bus_addr, reg_addr |-> reg_addr, val |-> val],
                                retcode)>>,
                  res |-> I2cRet(retcode, Unit)]
    /\ UNCHANGED <<i2cCount, vgaCount, libVga, i2c, vga, alive, component, conv>>

\* I2c::write_read_combined: `wr_len.try_into().unwrap()` is evaluated while the
\* arguments are built, so a failed narrowing panics before the native call
I2cWriteReadCombined(bus_addr, wr_len, rd_len) ==
    /\ alive /\ component = "i2c" /\ i2c # NoObj
    /\ LET wr32 == TryIntoU32(wr_len)
       IN  IF ~wr32.ok
           THEN /\ last' = [op |-> "I2c::write_read_combined",
                            args |-> [bus_addr |-> bus_addr, wr_len |-> wr_len,
                                      rd_len |-> rd_len],
                            calls |-> <<>>,
                            res |-> Panic]
                /\ alive' = FALSE
           ELSE /\ \E retcode \in Retcodes :
                     last' = [op |-> "I2c::write_read_combined",
                              args |-> [bus_addr |-> bus_addr, wr_len |-> wr_len,
                                        rd_len |-> rd_len],
                              calls |-> <<NativeCall("CgosI2CWriteReadCombined",
                                            [handle |-> i2c.handle, index |-> i2c.index,
                                             bus_addr |-> bus_addr, wr_len |-> wr32.val,
                                             rd_len |-> AsU32(rd_len)],
                                            retcode)>>,
                              res |-> I2cRet(retcode, Unit)]
                /\ alive' = alive
    /\ UNCHANGED <<i2cCount, vgaCount, libVga, i2c, vga, component, conv>>

\* I2c::get_max_frequency
I2cGetMaxFrequency ==
    /\ alive /\ component = "i2c" /\ i2c # NoObj
    /\ \E retcode \in Retcodes, stored \in NativeStores :
         LET wrote == stored.wrote
             out == stored.out
             ret == AfterNative(AddrOfLocal, 0, wrote, out)
         IN  last' = [op |-> "I2c::get_max_frequency", args |-> <<>>,
                      calls |-> <<NativeCall("CgosI2CGetMaxFrequency",
                                    [handle |-> i2c.handle, index |-> i2c.index,
                                     ptr |-> AddrOfLocal, wrote |-> wrote, out |-> out],
                                    retcode)>>,
                      res |-> I2cRet(retcode, ret)]
    /\ UNCHANGED <<i2cCount, vgaCount, libVga, i2c, vga, alive, component, conv>>

\* I2c::get_frequency
I2cGetFrequency ==
    /\ alive /\ component = "i2c" /\ i2c # NoObj
    /\ \E retcode \in Retcodes, stored \in NativeStores :
         LET wrote == stored.wrote
             out == stored.out
             ret == AfterNative(AddrOfLocal, 0, wrote, out)
         IN  last' = [op |-> "I2c::get_frequency", args |-> <<>>,
                      calls |-> <<NativeCall("CgosI2CGetFrequency",
                                    [handle |-> i2c.handle, index |-> i2c.index,
                                     ptr |-> AddrOfLocal, wrote |-> wrote, out |-> out],
                                    retcode)>>,
                      res |-> I2cRet(retcode, ret)]
    /\ UNCHANGED <<i2cCount, vgaCount, libVga, i2c, vga, alive, component, conv>>

\* I2c::set_frequency
I2cSetFrequency(frequency) ==
    /\ alive /\ component = "i2c" /\ i2c # NoObj
    /\ \E retcode \in Retcodes :
         last' = [op |-> "I2c::set_frequency", args |-> [frequency |-> frequency],
                  calls |-> <<NativeCall("CgosI2CSetFrequency",
                                [handle |-> i2c.handle, index |-> i2c.index,
                                 frequency |-> frequency],
                                retcode)>>,
                  res |-> I2cRet(retcode, Unit)]
    /\ UNCHANGED <<i2cCount, vgaCount, libVga, i2c, vga, alive, component, conv>>

----------------------------------------------------------------------------
(* Vga (src/vga.rs) *)

\* the tail the Vga setters and getters end with:
\* `if retcode != 0 { return Ok(val); } else { return Err(VgaErr::LibcgosErr); }`
VgaRet(retcode, val) == IF retcode # 0 THEN Ok(val) ELSE Err("LibcgosErr")

\* Vga::amount: `CgosVgaCount(handle) as usize`
VgaAmount(handle) == AsUsize(vgaCount)

\* Vga::new after the count query
VgaNewResult(handle, index, num_vga) ==
    IF index > SaturatingSub(num_vga, 1)
    THEN Err("IdxOutOfRange")
    ELSE LET conv32 == TryIntoU32(index)
         IN  IF ~conv32.ok
             THEN Err("IdxOutOfRange")
             ELSE Ok([handle |-> handle, index |-> conv32.val])

\* Vga::new
VgaNew(handle, index) ==
    /\ alive /\ component = "vga"
    /\ LET num_vga == VgaAmount(handle)
           res == VgaNewResult(handle, index, num_vga)
       IN  /\ last' = [op |-> "Vga::new",
                       args |-> [handle |-> handle, index |-> index],
                       calls |-> <<NativeCall("CgosVgaCount", [handle |-> handle], vgaCount)>>,
                       res |-> res]
           /\ vga' = IF res.kind = "Ok" THEN res.val ELSE vga
    /\ UNCHANGED <<i2cCount, vgaCount, libVga, i2c, alive, component, conv>>

\* a getter that passes the address of its local: `&mut ret as *mut u32`
VgaGetterPtr_AddrOf(ret) == AddrOfLocal

\* the out-pointer the three Vga getters pass: `ret as *mut u32`, the value of
\* the local cast to a pointer
VgaGetterPtr(ret) == IntAsPtr(ret)

\* Vga::get_contrast
VgaGetContrast ==
    /\ alive /\ component = "vga" /\ vga # NoObj
    /\ \E retcode \in Retcodes, wrote \in BOOLEAN :
         LET ptr == VgaGetterPtr(0)
             ret == AfterNative(ptr, 0, wrote, libVga.contrast)
         IN  last' = [op |-> "Vga::get_contrast", args |-> <<>>,
                      calls |-> <<NativeCall("CgosVgaGetContrast",
                                    [handle |-> vga.handle, index |-> vga.index,
                                     ptr |-> ptr, wrote |-> wrote],
                                    retcode)>>,
                      res |-> VgaRet(retcode, ret)]
    /\ UNCHANGED <<i2cCount, vgaCount, libVga, i2c, vga, alive, component, conv>>

\* Vga::set_contrast; the library keeps the value when it reports success
VgaSetContrast(value) ==
    /\ alive /\ component = "vga" /\ vga # NoObj
    /\ \E retcode \in Retcodes :
         /\ last' = [op |-> "Vga::set_contrast", args |-> [value |-> value],
                     calls |-> <<NativeCall("CgosVgaSetContrast",
                                   [handle |-> vga.handle, index |-> vga.index,
                                    value |-> value],
                                   retcode)>>,
                     res |-> VgaRet(retcode, Unit)]
         /\ libVga' = IF retcode # 0 THEN [libVga EXCEPT !.contrast = value] ELSE libVga
    /\ UNCHANGED <<i2cCount, vgaCount, i2c, vga, alive, component, conv>>

\* Vga::get_contrast_enable
VgaGetContrastEnable ==
    /\ alive /\ component = "vga" /\ vga # NoObj
    /\ \E retcode \in Retcodes, wrote \in BOOLEAN :
         LET ptr == VgaGetterPtr(0)
             ret == AfterNative(ptr, 0, wrote, libVga.contrast_enable)
         IN  last' = [op |-> "Vga::get_contrast_enable", args |-> <<>>,
                      calls |-> <<NativeCall("CgosVgaGetContrastEnable",
                                    [handle |-> vga.handle, index |-> vga.index,
                                     ptr |-> ptr, wrote |-> wrote],
                                    retcode)>>,
                      res |-> VgaRet(retcode, ret # 0)]
    /\ UNCHANGED <<i2cCount, vgaCount, libVga, i2c, vga, alive, component, conv>>

\* Vga::set_contrast_enable
VgaSetContrastEnable(en) ==
    /\ alive /\ component = "vga" /\ vga # NoObj
    /\ \E retcode \in Retcodes :
         /\ last' = [op |-> "Vga::set_contrast_enable", args |-> [en |-> en],
                     calls |-> <<NativeCall("CgosVgaSetContrastEnable",
                                   [handle |-> vga.handle, index |-> vga.index,
                                    value |-> U32FromBool(en)],
                                   retcode)>>,
                     res |-> VgaRet(retcode, Unit)]
         /\ libVga' = IF retcode # 0
                      THEN [libVga EXCEPT !.contrast_enable = U32FromBool(en)]
                      ELSE libVga
    /\ UNCHANGED <<i2cCount, vgaCount, i2c, vga, alive, component, conv>>

\* Vga::set_backlight; nothing of the wrapper reads the backlight value back,
\* so the library's copy of it is not part of the state
VgaSetBacklight(value) ==
    /\ alive /\ component = "vga" /\ vga # NoObj
    /\ \E retcode \in Retcodes :
         last' = [op |-> "Vga::set_backlight", args |-> [value |-> value],
                  calls |-> <<NativeCall("CgosVgaSetBacklight",
                                [handle |-> vga.handle, index |-> vga.index,
                                 value |-> value],
                                retcode)>>,
                  res |-> VgaRet(retcode, Unit)]
    /\ UNCHANGED <<i2cCount, vgaCount, libVga, i2c, vga, alive, component, conv>>

\* Vga::get_backlight_enable
VgaGetBacklightEnable ==
    /\ alive /\ component = "vga" /\ vga # NoObj
    /\ \E retcode \in Retcodes, wrote \in BOOLEAN :
         LET ptr == VgaGetterPtr(0)
             ret == AfterNative(ptr, 0, wrote, libVga.backlight_enable)
         IN  last' = [op |-> "Vga::get_backlight_enable", args |-> <<>>,
                      calls |-> <<NativeCall("CgosVgaGetBacklightEnable",
                                    [handle |-> vga.handle, index |-> vga.index,
                                     ptr |-> ptr, wrote |-> wrote],
                                    retcode)>>,
                      res |-> VgaRet(retcode, ret # 0)]
    /\ UNCHANGED <<i2cCount, vgaCount, libVga, i2c, vga, alive, component, conv>>

\* Vga::set_backlight_enable
VgaSetBacklightEnable(en) ==
    /\ alive /\ component = "vga" /\ vga # NoObj
    /\ \E retcode \in Retcodes :
         /\ last' = [op |-> "Vga::set_backlight_enable", args |-> [en |-> en],
                     calls |-> <<NativeCall("CgosVgaSetBacklightEnable",
                                   [handle |-> vga.handle, index |-> vga.index,
                                    value |-> U32FromBool(en)],
                                   retcode)>>,
                     res |-> VgaRet(retcode, Unit)]
         /\ libVga' = IF retcode # 0
                      THEN [libVga EXCEPT !.backlight_enable = U32FromBool(en)]
                      ELSE libVga
    /\ UNCHANGED <<i2cCount, vgaCount, i2c, vga, alive, component, conv>>

\* the fields of CGOSVGAINFO, each a u32, in declaration order
InfoFields ==
    <<"dwSize", "dwType", "dwFlags", "dwNativeWidth", "dwNativeHeight",
      "dwRequestedWidth", "dwRequestedHeight", "dwRequestedBpp",
      "dwMaxBacklight", "dwMaxContrast">>

\* size_of::<CGOSVGAINFO>() as u32
SizeOfCGOSVGAINFO == 4 * Len(InfoFields)

\* `zeroed()`
ZeroedInfo == [f \in {InfoFields[k] : k \in 1..Len(InfoFields)} |-> 0]

\* get_info's record as handed to the native call: zeroed, then dwSize stamped
GetInfoInit == [ZeroedInfo EXCEPT !.dwSize = SizeOfCGOSVGAINFO]

\* What the native query leaves in the record: untouched (fill = 0), or every
\* field after dwSize filled, each with a value of its own.
NativeFillInfo(info, fill) ==
    IF fill = 0
    THEN info
    ELSE [f \in DOMAIN info |->
            IF f = "dwSize"
            THEN info[f]
            ELSE 10 * fill + (CHOOSE k \in 1..Len(InfoFields) : InfoFields[k] = f)]

\* a field-by-field copy with two fields crossed
VgaInfoFrom_Crossed(info) ==
    [size |-> info.dwSize,
     vga_type |-> info.dwType,
     flags |-> info.dwFlags,
     native_width |-> info.dwNativeHeight,
     native_height |-> info.dwNativeWidth,
     requested_width |-> info.dwRequestedWidth,
     requested_height |-> info.dwRequestedHeight,
     requested_bpp |-> info.dwRequestedBpp,
     max_backlight |-> info.dwMaxBacklight,
     max_contrast |-> info.dwMaxContrast]

\* impl From<CGOSVGAINFO> for VgaInfo
VgaInfoFrom(info) ==
    [size |-> info.dwSize,
     vga_type |-> info.dwType,
     flags |-> info.dwFlags,
     native_width |-> info.dwNativeWidth,
     native_height |-> info.dwNativeHeight,
     requested_width |-> info.dwRequestedWidth,
     requested_height |-> info.dwRequestedHeight,
     requested_bpp |-> info.dwRequestedBpp,
     max_backlight |-> info.dwMaxBacklight,
     max_contrast |-> info.dwMaxContrast]

\* Vga::get_info: `if retcode == 0 { return Ok(info.into()); } else { return Err(..) }`
VgaGetInfo ==
    /\ alive /\ component = "vga" /\ vga # NoObj
    /\ \E retcode \in Retcodes, fill \in Values :
         LET passed == GetInfoInit
             left == NativeFillInfo(passed, fill)
         IN  last' = [op |-> "Vga::get_info", args |-> <<>>,
                      calls |-> <<NativeCall("CgosVgaGetInfo",
                                    [handle |-> vga.handle, index |-> vga.index,
                                     passed |-> passed, left |-> left],
                                    retcode)>>,
                      res |-> IF retcode = 0
                              THEN Ok(VgaInfoFrom(left))
                              ELSE Err("LibcgosErr")]
    /\ UNCHANGED <<i2cCount, vgaCount, libVga, i2c, vga, alive, component, conv>>

----------------------------------------------------------------------------
(* The native library's side *)

\* The count the library reports is live state of the board and may change
\* between calls; the wrapper reads it anew in every new.
LibCountChanges ==
    /\ alive
    /\ \E n \in Counts :
         \/ component = "i2c" /\ i2cCount' = n /\ i2cCount # n /\ vgaCount' = vgaCount
         \/ component = "vga" /\ vgaCount' = n /\ vgaCount # n /\ i2cCount' = i2cCount
    /\ UNCHANGED <<libVga, i2c, vga, last, alive, component, conv>>

----------------------------------------------------------------------------
(* Conversions of classification codes, applied one at a time *)

ConvIdle == [family |-> "none", stage |-> "idle", raw |-> 0, kind |-> Variant("Unknown"), back |-> 0]
ConvStart(family, raw) ==
    [family |-> family, stage |-> "raw", raw |-> raw, kind |-> Variant("Unknown"), back |-> 0]

\* I2cKind::from(raw)
ConvI2cKindFrom ==
    /\ conv.family = "i2c" /\ conv.stage = "raw"
    /\ conv' = [conv EXCEPT !.stage = "kind", !.kind = I2cKindFromU32(conv.raw)]
    /\ UNCHANGED <<i2cCount, vgaCount, libVga, i2c, vga, last, alive, component>>

\* u32::from(kind)
ConvI2cKindInto ==
    /\ conv.family = "i2c" /\ conv.stage = "kind"
    /\ conv' = [conv EXCEPT !.stage = "back", !.back = U32FromI2cKind(conv.kind)]
    /\ UNCHANGED <<i2cCount, vgaCount, libVga, i2c, vga, last, alive, component>>

\* VgaType::from(raw)
ConvVgaTypeFrom ==
    /\ conv.family = "vga" /\ conv.stage = "raw"
    /\ conv' = [conv EXCEPT !.stage = "kind", !.kind = VgaTypeFromU32(conv.raw)]
    /\ UNCHANGED <<i2cCount, vgaCount, libVga, i2c, vga, last, alive, component>>

\* vga_type.into()
ConvVgaTypeInto ==
    /\ conv.family = "vga" /\ conv.stage = "kind"
    /\ conv' = [conv EXCEPT !.stage = "back", !.back = U32FromVgaType(conv.kind)]
    /\ UNCHANGED <<i2cCount, vgaCount, libVga, i2c, vga, last, alive, component>>

----------------------------------------------------------------------------
(* Specifications *)

LibVgaStates ==
    [contrast : Values, contrast_enable : {0, 1}, backlight_enable : {0, 1}]

LibVgaDefault == [contrast |-> 0, contrast_enable |-> 0, backlight_enable |-> 0]

Init ==
    /\ component \in {"i2c", "vga"}
    /\ i2cCount \in (IF component = "i2c" THEN Counts ELSE {0})
    /\ vgaCount \in (IF component = "vga" THEN Counts ELSE {0})
    /\ libVga \in (IF component = "vga" THEN LibVgaStates ELSE {LibVgaDefault})
    /\ i2c = NoObj
    /\ vga = NoObj
    /\ last = NoOp
    /\ alive = TRUE
    /\ conv = ConvIdle

Next ==
    \/ \E handle \in Handles, index \in Indices : I2cNew(handle, index)
    \/ I2cType
    \/ I2cIsAvailable
    \/ \E a \in Addrs, n \in BufLens : I2cRead(a, n)
    \/ \E a \in Addrs, n \in BufLens : I2cWrite(a, n)
    \/ \E a \in Addrs, r \in Addrs : I2cReadRegister(a, r)
    \/ \E a \in Addrs, r \in Addrs, v \in Values : I2cWriteRegister(a, r, v)
    \/ \E a \in Addrs, w \in BufLens, r \in BufLens : I2cWriteReadCombined(a, w, r)
    \/ I2cGetMaxFrequency
    \/ I2cGetFrequency
    \/ \E f \in Values : I2cSetFrequency(f)
    \/ \E handle \in Handles, index \in Indices : VgaNew(handle, index)
    \/ VgaGetContrast
    \/ \E v \in Values : VgaSetContrast(v)
    \/ VgaGetContrastEnable
    \/ \E en \in BOOLEAN : VgaSetContrastEnable(en)
    \/ \E v \in Values : VgaSetBacklight(v)
    \/ VgaGetBacklightEnable
    \/ \E en \in BOOLEAN : VgaSetBacklightEnable(en)
    \/ VgaGetInfo
    \/ LibCountChanges

Spec == Init /\ [][Next]_vars

\* the conversions alone, from every raw code of either family
InitConv ==
    /\ component = "none"
    /\ i2cCount = 0
    /\ vgaCount = 0
    /\ libVga = LibVgaDefault
    /\ i2c = NoObj
    /\ vga = NoObj
    /\ last = NoOp
    /\ alive = TRUE
    /\ conv \in {ConvStart(f, c) : f \in {"i2c", "vga"}, c \in RawCodes}

NextConv ==
    \/ ConvI2cKindFrom
    \/ ConvI2cKindInto
    \/ ConvVgaTypeFrom
    \/ ConvVgaTypeInto

SpecConv == InitConv /\ [][NextConv]_vars

----------------------------------------------------------------------------
(* Properties *)

TheCall == last.calls[1]
IsNew == last.op \in {"I2c::new", "Vga::new"}
IndexErr == IF last.op = "I2c::new" THEN "IndexOutOfRange" ELSE "IdxOutOfRange"
\* the object of the component the last operation belongs to
TheObj == IF component = "i2c" THEN i2c ELSE vga

I2cTransferOps ==
    {"I2c::read", "I2c::write", "I2c::read_register", "I2c::write_register",
     "I2c::write_read_combined", "I2c::get_max_frequency", "I2c::get_frequency",
     "I2c::set_frequency"}
I2cValueOps == {"I2c::read_register", "I2c::get_max_frequency", "I2c::get_frequency"}
VgaOps ==
    {"Vga::get_contrast", "Vga::set_contrast", "Vga::get_contrast_enable",
     "Vga::set_contrast_enable", "Vga::set_backlight", "Vga::get_backlight_enable",
     "Vga::set_backlight_enable", "Vga::get_info"}

\* C1: new(handle, i) with i >= amount(handle) returns the IndexOutOfRange
\* error and no handle object, also when amount(handle) = 0 and i = 0; every
\* object constructed has index < the count read during its construction.
C1_OutOfRangeRejected ==
    IsNew =>
        /\ last.args.index >= AsUsize(TheCall.ret) =>
               last.res.kind = "Err" /\ last.res.val = IndexErr
        /\ last.res.kind = "Ok" => last.res.val.index < TheCall.ret

\* C2: new(handle, i) with i < amount(handle) returns Ok with an object whose
\* index is i and whose device handle is the handle given, and that object is
\* the one the caller now holds.
C2_InRangeAccepted ==
    (IsNew /\ last.args.index < AsUsize(TheCall.ret)) =>
        /\ last.res.kind = "Ok"
        /\ last.res.val = [handle |-> last.args.handle, index |-> last.args.index]
        /\ TheObj = last.res.val

\* C2's case: the last unit of a board with several is asked for, and granted
C2_Witness ==
    /\ last.op = "I2c::new"
    /\ TheCall.ret = MaxCount
    /\ last.args.index = MaxCount - 1
    /\ last.res.kind = "Ok"
    /\ i2c.index = MaxCount - 1

\* C3: every public Vga operation, get_info included, returns Err(LibcgosErr)
\* when its native call returns 0 and Ok when it returns a nonzero value.
C3_VgaReturnConvention ==
    last.op \in VgaOps =>
        /\ TheCall.ret = 0 => last.res.kind = "Err" /\ last.res.val = "LibcgosErr"
        /\ TheCall.ret # 0 => last.res.kind = "Ok"

\* C4: an I2c transfer returns Err(Bus) exactly when its native call returned
\* 0 and Ok exactly when its native call returned something else; Bus is the
\* only error it returns; read_register, get_frequency and get_max_frequency
\* return on success the value the native call wrote to the output location.
C4_I2cBusConvention ==
    last.op \in I2cTransferOps =>
        /\ last.res.kind = "Err" <=> (Len(last.calls) = 1 /\ TheCall.ret = 0)
        /\ last.res.kind = "Ok" <=> (Len(last.calls) = 1 /\ TheCall.ret # 0)
        /\ last.res.kind = "Err" => last.res.val = "Bus"
        /\ (last.op \in I2cValueOps /\ last.res.kind = "Ok" /\ TheCall.a.wrote) =>
               last.res.val = TheCall.a.out

\* C4's case: a register read succeeds and the byte the native call stored
\* comes back
C4_Witness ==
    /\ last.op = "I2c::read_register"
    /\ TheCall.ret # 0
    /\ TheCall.a.wrote
    /\ TheCall.a.out = MaxValue
    /\ last.res = Ok(MaxValue)

\* the named variant each declared constant stands for
I2cNamed ==
    {<<CGOS_I2C_TYPE_UNKNOWN, "Unknown">>, <<CGOS_I2C_TYPE_PRIMARY, "Primary">>,
     <<CGOS_I2C_TYPE_SMB, "Smb">>, <<CGOS_I2C_TYPE_DDC, "Ddc">>}
VgaNamed ==
    {<<CGOS_VGA_TYPE_UNKNOWN, "Unknown">>, <<CGOS_VGA_TYPE_CRT, "Crt">>,
     <<CGOS_VGA_TYPE_LCD, "Lcd">>, <<CGOS_VGA_TYPE_LCD_DVO, "LcdDv0">>,
     <<CGOS_VGA_TYPE_LCD_LVDS, "LcdLvds">>, <<CGOS_VGA_TYPE_TV, "Tv">>}
NamedOf(family) == IF family = "i2c" THEN I2cNamed ELSE VgaNamed
ReservedTag(family) == IF family = "i2c" THEN "CongatecInternalUse" ELSE "Other"

\* C5: a raw code equal to a declared constant converts to the variant named
\* for it, never to the reserved one; any other code converts to the reserved
\* variant carrying the code; converting back yields the code started from.
C5_RoundTrip ==
    /\ conv.stage \in {"kind", "back"} =>
           /\ \A p \in NamedOf(conv.family) :
                  conv.raw = p[1] => conv.kind = Variant(p[2])
           /\ (\A p \in NamedOf(conv.family) : conv.raw # p[1]) =>
                  conv.kind = Reserved(ReservedTag(conv.family), conv.raw)
    /\ conv.stage = "back" => conv.back = conv.raw

\* C5's case: a code the header does not declare has gone through the reserved
\* variant and back
C5_Witness ==
    /\ conv.stage = "back"
    /\ conv.family = "vga"
    /\ conv.raw = CGOS_VGA_TYPE_TV + 1
    /\ conv.kind.tag = "Other"
    /\ conv.back = conv.raw

\* C6: every public operation ends by returning Ok or a typed error, for
\* every input, buffers longer than a u32 can count included: none panics.
C6_NoPanicPath == last.res.kind \in {"Ok", "Err"}

\* C7: get_info hands the native query a record whose dwSize is the size of
\* CGOSVGAINFO and whose other fields are zero, and when it returns Ok every
\* field of the VgaInfo equals the field of the record as the native call
\* left it.
C7_GetInfoStampsSize ==
    last.op = "Vga::get_info" =>
        LET passed == TheCall.a.passed
            left == TheCall.a.left
        IN  /\ passed.dwSize = SizeOfCGOSVGAINFO
            /\ \A f \in DOMAIN passed : f # "dwSize" => passed[f] = 0
            /\ last.res.kind = "Ok" =>
                   /\ last.res.val.size = left.dwSize
                   /\ last.res.val.vga_type = left.dwType
                   /\ last.res.val.flags = left.dwFlags
                   /\ last.res.val.native_width = left.dwNativeWidth
                   /\ last.res.val.native_height = left.dwNativeHeight
                   /\ last.res.val.requested_width = left.dwRequestedWidth
                   /\ last.res.val.requested_height = left.dwRequestedHeight
                   /\ last.res.val.requested_bpp = left.dwRequestedBpp
                   /\ last.res.val.max_backlight = left.dwMaxBacklight
                   /\ last.res.val.max_contrast = left.dwMaxContrast

\* C7's case: the native query filled the record and get_info returned it
C7_Witness ==
    /\ last.op = "Vga::get_info"
    /\ last.res.kind = "Ok"
    /\ TheCall.a.left.dwNativeWidth # 0
    /\ TheCall.a.left.dwNativeWidth # TheCall.a.left.dwNativeHeight
    /\ last.res.val.native_width = TheCall.a.left.dwNativeWidth
    /\ last.res.val.size = SizeOfCGOSVGAINFO

\* C8: read, write and write_read_combined issue their native call with
\* length arguments equal to the lengths of the caller's buffers, for every
\* buffer length.
C8_LengthsForwarded ==
    /\ last.op = "I2c::read" =>
           Len(last.calls) = 1 /\ TheCall.a.rd_len = last.args.data_len
    /\ last.op = "I2c::write" =>
           Len(last.calls) = 1 /\ TheCall.a.wr_len = last.args.wr_len
    /\ last.op = "I2c::write_read_combined" =>
           /\ Len(last.calls) = 1
           /\ TheCall.a.wr_len = last.args.wr_len
           /\ TheCall.a.rd_len = last.args.rd_len

\* C9: every public operation issues exactly one native call, successful or
\* not, and on a constructed handle that call carries the device handle and
\* index of the object, which the operation leaves as constructed; new issues
\* exactly one count query.
C9_OneNativeCallPerOperation ==
    last.op # "none" =>
        /\ Len(last.calls) = 1
        /\ IsNew => TheCall.fn \in {"CgosI2CCount", "CgosVgaCount"}
        /\ ~IsNew =>
               /\ TheCall.a.handle = TheObj.handle
               /\ TheCall.a.index = TheObj.index

\* C10: get_contrast, get_contrast_enable and get_backlight_enable pass the
\* zero local by value as the pointer, so when they return Ok the value is 0
\* (false), whatever the native library holds.
C10_GettersReturnZero ==
    /\ last.op \in {"Vga::get_contrast", "Vga::get_contrast_enable",
                    "Vga::get_backlight_enable"} =>
           TheCall.a.ptr = IntAsPtr(0)
    /\ (last.op = "Vga::get_contrast" /\ last.res.kind = "Ok") => last.res.val = 0
    /\ (last.op \in {"Vga::get_contrast_enable", "Vga::get_backlight_enable"}
            /\ last.res.kind = "Ok") => last.res.val = FALSE

\* C10's case: the library holds a nonzero contrast, stores its answer where
\* it can, reports success, and get_contrast still returns 0
C10_Witness ==
    /\ last.op = "Vga::get_contrast"
    /\ libVga.contrast = MaxValue
    /\ libVga.contrast_enable = 1
    /\ TheCall.a.wrote
    /\ TheCall.ret # 0
    /\ last.res = Ok(0)

====
